---------------------------- MODULE Spec2Model ----------------------------
(***************************************************************************)
(* Build/watch orchestrator of the generated FrontEnd project.             *)
(*                                                                         *)
(*   gulp/watch.js  (src/unnamed/part_001): the "watch" task, which binds  *)
(*                  eight globs to task compositions with gulp.watch.      *)
(*   gulp/guide.js  : the guide:build and guide:dist tasks.                *)
(*                                                                         *)
(* gulp.series, gulp.parallel and gulp.watch are library calls.  They are  *)
(* modelled by what gulp 4 does with them: series/parallel are bach's      *)
(* mapSeries/map over async-done, watch is glob-watcher with its default   *)
(* options (queue: true).  async-done defers the start of a task with      *)
(* process.nextTick; no I/O callback can run in between, so the start is   *)
(* folded into the step that schedules it.                                 *)
(***************************************************************************)
EXTENDS Integers, Sequences, FiniteSets, TLC

\* ------------------------------------------------------------------ bounds
MaxEvents == 3      \* file-change events delivered to the watchers in a run
MaxFiles  == 2      \* fragment files matched by the guide glob
MaxClock  == 1      \* largest reading of Date.now()
MaxEdits  == 1      \* edits of fragment files on disk
MaxCopy   == 3      \* files in each guide:dist copy pipeline

\* ------------------------------------------------- composition combinators
Leaf(t)      == [type |-> "leaf",     task |-> t,  kids |-> <<>>]
series(ks)   == [type |-> "series",   task |-> "", kids |-> ks]
parallel(ks) == [type |-> "parallel", task |-> "", kids |-> ks]

\* Variant: the fonts route notifies twice.
RouteTableReloadTwice ==
  [ styles  |-> Leaf("styles.build"),
    fonts   |-> series(<<Leaf("fonts.build"), Leaf("reload"), Leaf("reload")>>),
    symbols |-> series(<<Leaf("symbols.build"), Leaf("reload")>>),
    images  |-> series(<<Leaf("images.build"),  Leaf("reload")>>),
    libs    |-> series(<<Leaf("libs.build"),    Leaf("reload")>>),
    scripts |-> series(<<Leaf("scripts.build"), Leaf("reload")>>),
    views   |-> series(<<parallel(<<Leaf("views.build"), Leaf("guide.build")>>),
                         Leaf("reload")>>),
    guide   |-> series(<<Leaf("guide.build"), Leaf("reload")>>) ]
\* watch.js lines 19-26: glob -> composition
RouteTable ==
  [ styles  |-> Leaf("styles.build"),
    fonts   |-> series(<<Leaf("fonts.build"),   Leaf("reload")>>),
    symbols |-> series(<<Leaf("symbols.build"), Leaf("reload")>>),
    images  |-> series(<<Leaf("images.build"),  Leaf("reload")>>),
    libs    |-> series(<<Leaf("libs.build"),    Leaf("reload")>>),
    scripts |-> series(<<Leaf("scripts.build"), Leaf("reload")>>),
    views   |-> series(<<parallel(<<Leaf("views.build"), Leaf("guide.build")>>),
                         Leaf("reload")>>),
    guide   |-> series(<<Leaf("guide.build"), Leaf("reload")>>) ]

Routes == DOMAIN RouteTable

RECURSIVE NodeAt(_, _)
NodeAt(tree, p) ==
  IF p = <<>> THEN tree ELSE NodeAt(tree.kids[Head(p)], Tail(p))

RECURSIVE PathsOf(_)
PathsOf(tree) ==
  {<<>>} \cup UNION { { <<i>> \o q : q \in PathsOf(tree.kids[i]) }
                      : i \in 1..Len(tree.kids) }

Node(r, p)   == NodeAt(RouteTable[r], p)
Paths(r)     == PathsOf(RouteTable[r])
LeafPaths(r) == { p \in Paths(r) : Node(r, p).type = "leaf" }
Parent(p)    == SubSeq(p, 1, Len(p) - 1)
Kids(r, p)   == { Append(p, i) : i \in 1..Len(Node(r, p).kids) }

VARIABLES
  watchCalls,   \* invocations of the "watch" task body
  watchDone,    \* calls of the watch task's done callback
  subs,         \* routes that have a registered watcher
  running,      \* glob-watcher: running flag of each watcher
  queued,       \* glob-watcher: queued flag of each watcher
  run,          \* per route, the state of the latest run of its composition
  orphans,      \* per route, leaf tasks still in flight from ended runs
  lastResult,   \* per route, outcome of the last completed run
  lastNotify,   \* per route, reload calls made by the last completed run
  events,       \* change events delivered so far
  nEvents,      \* per route, change events delivered
  nRuns         \* per route, runs started

watchVars == <<watchCalls, watchDone, subs, running, queued, run, orphans,
               lastResult, lastNotify, events, nEvents, nRuns>>

VARIABLES
  globbed,      \* globbySync(config.guide): the matched fragment files
  disk,         \* per fragment file, the version of its content on disk
  edits,        \* edits made to fragment files so far
  clock,        \* the reading Date.now() returns
  cache,        \* ESM module map: <<file, tag>> -> evaluated version
  gpc,          \* per caller of guide:build, where its invocation stands
  rest,         \* per caller, fragment files still to import
  agg,          \* per caller, the aggregate (the guide object)
  stale,        \* per caller, an import returned an outdated evaluation
  gDone,        \* per caller, calls of done by the invocation
  gResult,      \* per caller, what async-done reports for the invocation
  logged        \* per caller, console.error was called

guideVars == <<globbed, disk, edits, clock, cache, gpc, rest, agg, stale,
               gDone, gResult, logged>>

VARIABLES
  distCalls,    \* invocations of guide:dist
  distDone,     \* calls of done by guide:dist
  viewsPipe,    \* state of the guide views copy stream
  assetsPipe,   \* state of the guide assets copy stream
  viewsSrc,     \* files matched by config.build.guide.views
  assetsSrc,    \* files matched by config.build.guide.assets
  viewsOut,     \* guide view files written to the dist directory
  assetsOut     \* guide asset files written to the dist directory

distVars == <<distCalls, distDone, viewsPipe, assetsPipe, viewsSrc,
              assetsSrc, viewsOut, assetsOut>>

vars == <<watchVars, guideVars, distVars>>

\* A composition that has not been started: nothing runs, nothing notified.
FreshRun(r) ==
  [ st       |-> [p \in Paths(r) |-> "idle"],
    err      |-> [p \in Paths(r) |-> ""],
    notified |-> 0 ]

\* bach mapSeries starts the first child only.
\* Variant: a series that starts all its children at once.
SeriesFirstAll(len) == 1..len
SeriesFirst(len) == {1}

RECURSIVE StartNode(_, _, _), StartKids(_, _, _, _)
\* async-done invokes a leaf; series/parallel start their children.
\* reload is browser.js's task: invoking it is the notify call.
StartNode(r, rs, p) ==
  LET n   == Node(r, p)
      rs1 == [rs EXCEPT !.st[p] = "running"]
  IN CASE n.type = "leaf" ->
            [rs1 EXCEPT !.notified = @ + (IF n.task = "reload" THEN 1 ELSE 0)]
       [] n.type = "series" ->
            StartKids(r, rs1, p, SeriesFirst(Len(n.kids)))
       [] n.type = "parallel" ->
            StartKids(r, rs1, p, 1..Len(n.kids))

StartKids(r, rs, p, is) ==
  IF is = {} THEN rs
  ELSE LET i == CHOOSE j \in is : \A k \in is : j <= k
       IN StartKids(r, StartNode(r, rs, Append(p, i)), p, is \ {i})

\* now-and-later mapSeries handler: an error ends the series, a success
\* starts the next child or ends the series after the last one.
\* Variant: a series that goes on after a failed child.
SeriesHandlerContinue(failed, i, len) ==
  IF i >= len THEN (IF failed THEN "fail" ELSE "done") ELSE "next"
SeriesHandler(failed, i, len) ==
  IF failed THEN "fail" ELSE IF i >= len THEN "done" ELSE "next"

\* now-and-later map handler: the first error calls done(err) at once
\* (done is wrapped in once); a success counts down and calls done at zero.
\* Variant: a parallel that completes with its first child.
ParallelHandlerFirstDone(failed, parentRunning, allOk) ==
  IF ~parentRunning THEN "none" ELSE IF failed THEN "fail" ELSE "done"
ParallelHandler(failed, parentRunning, allOk) ==
  IF failed THEN (IF parentRunning THEN "fail" ELSE "none")
  ELSE IF allOk THEN "done" ELSE "none"

RECURSIVE Complete(_, _, _, _, _)
\* Node p signals completion with (status, e); the parent's handler runs
\* in the same callback chain.
Complete(r, rs, p, status, e) ==
  LET rs1 == [rs EXCEPT !.st[p] = status, !.err[p] = e] IN
  IF p = <<>> THEN rs1
  ELSE
    LET q   == Parent(p)
        i   == p[Len(p)]
        pn  == Node(r, q)
        len == Len(pn.kids)
        act == IF pn.type = "series"
               THEN SeriesHandler(status = "failed", i, len)
               ELSE ParallelHandler(status = "failed", rs1.st[q] = "running",
                                    \A c \in Kids(r, q) : rs1.st[c] = "ok")
    IN CASE act = "fail" -> Complete(r, rs1, q, "failed", e)
         [] act = "done" -> Complete(r, rs1, q, "ok", "")
         [] act = "next" -> StartNode(r, rs1, Append(q, i + 1))
         [] OTHER        -> rs1

InFlight(r, rs) == Cardinality({ p \in LeafPaths(r) : rs.st[p] = "running" })

\* ---------------------------------------------------------------- watch.js
\* build(done): eight gulp.watch registrations, then done().
\* Variant: the guide glob is not watched.
WatchRegisteredButGuide == Routes \ {"guide"}
WatchRegistered == Routes

WatchBuild ==
  /\ watchCalls = 0
  /\ watchCalls' = 1
  /\ subs' = subs \cup WatchRegistered
  /\ watchDone' = watchDone + 1
  /\ UNCHANGED <<running, queued, run, orphans, lastResult, lastNotify,
                 events, nEvents, nRuns>>
  /\ UNCHANGED <<guideVars, distVars>>

\* glob-watcher onChange, the not-running branch: asyncDone(cb, runComplete)
\* runs the whole composition from its initial state.  Leaves of an ended
\* run that are still in flight keep running detached.
BeginRun(r) ==
  /\ run'     = [run EXCEPT ![r] = StartNode(r, FreshRun(r), <<>>)]
  /\ orphans' = [orphans EXCEPT ![r] = @ + InFlight(r, run[r])]
  /\ nRuns'   = [nRuns EXCEPT ![r] = @ + 1]

\* glob-watcher onChange (after the debounce).
Change(r) ==
  /\ r \in subs
  /\ events < MaxEvents
  /\ events' = events + 1
  /\ nEvents' = [nEvents EXCEPT ![r] = @ + 1]
  /\ IF running[r]
     THEN /\ queued' = [queued EXCEPT ![r] = TRUE]
          /\ UNCHANGED <<running, run, orphans, nRuns>>
     ELSE /\ running' = [running EXCEPT ![r] = TRUE]
          /\ BeginRun(r)
          /\ UNCHANGED queued
  /\ UNCHANGED <<watchCalls, watchDone, subs, lastResult, lastNotify>>
  /\ UNCHANGED <<guideVars, distVars>>

\* glob-watcher runComplete(err): what happens to the subscription and
\* whether the composition is started again.
\* Variant: a failed run closes the watcher.
RunCompleteClose(failed, isQueued) ==
  [keep |-> ~failed, again |-> isQueued]
RunComplete(failed, isQueued) ==
  [keep |-> TRUE, again |-> isQueued]

\* Outcomes a leaf can signal.  reload (browser.js) is fire-and-forget;
\* every other task either succeeds or reports its own error.
Outcomes(task) ==
  IF task = "reload" THEN {"ok"} ELSE {"ok", "failed"}

\* A running leaf of the latest run signals completion.
LeafDone(r, p) ==
  /\ p \in LeafPaths(r)
  /\ run[r].st[p] = "running"
  /\ \E o \in Outcomes(Node(r, p).task) :
       LET e    == IF o = "failed" THEN Node(r, p).task ELSE ""
           rs2  == Complete(r, run[r], p, o, e)
           ends == run[r].st[<<>>] = "running" /\ rs2.st[<<>>] # "running"
           rc   == RunComplete(rs2.st[<<>>] = "failed", queued[r])
       IN IF ~ends
          THEN /\ run' = [run EXCEPT ![r] = rs2]
               /\ UNCHANGED <<running, queued, orphans, lastResult,
                              lastNotify, nRuns, subs>>
          ELSE /\ lastResult' = [lastResult EXCEPT ![r] = rs2.st[<<>>]]
               /\ lastNotify' = [lastNotify EXCEPT ![r] = rs2.notified]
               /\ queued' = [queued EXCEPT ![r] = FALSE]
               /\ subs' = IF rc.keep THEN subs ELSE subs \ {r}
               /\ IF rc.again
                  THEN /\ run' = [run EXCEPT ![r] =
                                    StartNode(r, FreshRun(r), <<>>)]
                       /\ orphans' = [orphans EXCEPT ![r] =
                                        @ + InFlight(r, rs2)]
                       /\ nRuns' = [nRuns EXCEPT ![r] = @ + 1]
                       /\ UNCHANGED running
                  ELSE /\ run' = [run EXCEPT ![r] = rs2]
                       /\ running' = [running EXCEPT ![r] = FALSE]
                       /\ UNCHANGED <<orphans, nRuns>>
  /\ UNCHANGED <<watchCalls, watchDone, events, nEvents>>
  /\ UNCHANGED <<guideVars, distVars>>

\* A leaf left over from an ended run finishes; its once-wrapped callback
\* has no effect on any composition.
OrphanDone(r) ==
  /\ orphans[r] > 0
  /\ orphans' = [orphans EXCEPT ![r] = @ - 1]
  /\ UNCHANGED <<watchCalls, watchDone, subs, running, queued, run,
                 lastResult, lastNotify, events, nEvents, nRuns>>
  /\ UNCHANGED <<guideVars, distVars>>


\* ---------------------------------------------------------------- guide.js
\* Paths are sequences of tokens; "/" separates directories and "." starts
\* an extension, as node:path/posix reads them.
IndexJs    == <<"guide", "/", "index", ".", "js">>
ButtonJs   == <<"guide", "/", "button", ".", "js">>
CardJs     == <<"guide", "/", "card", ".", "js">>
Fragments  == {IndexJs, ButtonJs, CardJs}

\* The routes of watch.js whose composition invokes guide.build (lines 25-26).
Callers == { r \in Routes :
               \E p \in LeafPaths(r) : Node(r, p).task = "guide.build" }

\* Position of the last occurrence of a token, 0 if there is none.
LastIndexOf(s, tok) ==
  IF \E i \in 1..Len(s) : s[i] = tok
  THEN CHOOSE i \in 1..Len(s) : s[i] = tok /\ \A j \in (i + 1)..Len(s) : s[j] # tok
  ELSE 0

\* String.prototype.includes('index')
includes(file, tok) == \E i \in 1..Len(file) : file[i] = tok

LastPart(file) == SubSeq(file, LastIndexOf(file, "/") + 1, Len(file))

\* path.extname: from the last "." of the last path component, unless that
\* "." is its first character.
extname(file) ==
  LET b == LastPart(file)
      d == LastIndexOf(b, ".")
  IN IF d <= 1 THEN <<>> ELSE SubSeq(b, d, Len(b))

\* path.basename(file, ext)
basename(file, ext) ==
  LET b == LastPart(file)
      n == Len(b) - Len(ext)
  IN IF ext # <<>> /\ n > 0 /\ SubSeq(b, n + 1, Len(b)) = ext
     THEN SubSeq(b, 1, n) ELSE b

\* Array.prototype.findIndex, 0-based, -1 when nothing matches.
findIndex(files) ==
  IF \E i \in 1..Len(files) : includes(files[i], "index")
  THEN (CHOOSE i \in 1..Len(files) :
          /\ includes(files[i], "index")
          /\ \A j \in 1..(i - 1) : ~includes(files[j], "index")) - 1
  ELSE -1

\* Array.prototype.splice(start, 1): a negative start counts from the end.
splice(files, start) ==
  LET len == Len(files)
      a   == IF start < 0
             THEN (IF len + start < 0 THEN 0 ELSE len + start)
             ELSE (IF start > len THEN len ELSE start)
  IN IF a < len
     THEN [ removed |-> <<files[a + 1]>>,
            files   |-> SubSeq(files, 1, a) \o SubSeq(files, a + 2, len) ]
     ELSE [ removed |-> <<>>, files |-> files ]

\* import(`${file}?t=${tag}`): the module map is keyed by the whole
\* specifier; a specifier seen before yields the evaluation made then.
ImportVal(file, tag) ==
  IF <<file, tag>> \in DOMAIN cache THEN cache[<<file, tag>>] ELSE disk[file]

ImportCache(file, tag) ==
  IF <<file, tag>> \in DOMAIN cache THEN cache
  ELSE [k \in DOMAIN cache \cup {<<file, tag>>} |->
          IF k = <<file, tag>> THEN disk[file] ELSE cache[k]]

NoAggregate == [base |-> <<>>, val |-> -1, keys |-> <<>>]

\* guide[key] = value on the aggregate
Assign(g, key, file, v) ==
  [g EXCEPT !.keys =
     [k \in DOMAIN g.keys \cup {key} |->
        IF k = key THEN [file |-> file, val |-> v] ELSE g.keys[k]]]

\* build(done), lines 15-18: glob, split off the index file, read
\* package.json and import the index module.  A failed read or parse of
\* package.json, a missing index (join('..', undefined) throws) or a failed
\* import rejects the async function before done is called.
BuildStart(c) ==
  /\ gpc[c] \in {"idle", "done", "failed"}
  /\ LET sp == splice(globbed, findIndex(globbed)) IN
     \/ /\ gpc' = [gpc EXCEPT ![c] = "failed"]
        /\ gResult' = [gResult EXCEPT ![c] = "failed"]
        /\ rest' = [rest EXCEPT ![c] = <<>>]
        /\ agg' = [agg EXCEPT ![c] = NoAggregate]
        /\ stale' = [stale EXCEPT ![c] = FALSE]
        /\ UNCHANGED cache
     \/ /\ sp.removed # <<>>
        /\ LET index == sp.removed[1]
               v     == ImportVal(index, clock)
           IN /\ gpc' = [gpc EXCEPT ![c] = "files"]
              /\ gResult' = [gResult EXCEPT ![c] = "pending"]
              /\ rest' = [rest EXCEPT ![c] = sp.files]
              /\ agg' = [agg EXCEPT ![c] =
                           [base |-> index, val |-> v, keys |-> <<>>]]
              /\ stale' = [stale EXCEPT ![c] = v # disk[index]]
              /\ cache' = ImportCache(index, clock)
  /\ gDone' = [gDone EXCEPT ![c] = 0]
  /\ logged' = [logged EXCEPT ![c] = FALSE]
  /\ UNCHANGED <<globbed, disk, edits, clock>>
  /\ UNCHANGED <<watchVars, distVars>>

\* build(done), lines 20-25: one turn of the loop, up to its await.  A
\* rejected import ends the invocation; its aggregate is dropped.
BuildImport(c) ==
  /\ gpc[c] = "files"
  /\ rest[c] # <<>>
  /\ LET file == Head(rest[c])
         key  == basename(file, extname(file))
         v    == ImportVal(file, clock)
     IN \/ /\ gpc' = [gpc EXCEPT ![c] = "failed"]
           /\ gResult' = [gResult EXCEPT ![c] = "failed"]
           /\ rest' = [rest EXCEPT ![c] = <<>>]
           /\ agg' = [agg EXCEPT ![c] = NoAggregate]
           /\ UNCHANGED <<stale, cache>>
        \/ /\ agg' = [agg EXCEPT ![c] = Assign(@, key, file, v)]
           /\ rest' = [rest EXCEPT ![c] = Tail(@)]
           /\ stale' = [stale EXCEPT ![c] = @ \/ v # disk[file]]
           /\ cache' = ImportCache(file, clock)
           /\ UNCHANGED <<gpc, gResult>>
  /\ UNCHANGED <<globbed, disk, edits, clock, gDone, logged>>
  /\ UNCHANGED <<watchVars, distVars>>

\* build(done), lines 27-38: generateGuide in try/catch, then done().
\* Variant: the catch block lets the error escape.
AfterRenderRethrow(throws) ==
  IF throws THEN [logged |-> TRUE,  done |-> 0, result |-> "failed"]
            ELSE [logged |-> FALSE, done |-> 1, result |-> "ok"]
AfterRender(throws) ==
  [logged |-> throws, done |-> 1, result |-> "ok"]

BuildRender(c) ==
  /\ gpc[c] = "files"
  /\ rest[c] = <<>>
  /\ \E throws \in BOOLEAN :
       LET o == AfterRender(throws) IN
       /\ logged' = [logged EXCEPT ![c] = o.logged]
       /\ gDone' = [gDone EXCEPT ![c] = @ + o.done]
       /\ gResult' = [gResult EXCEPT ![c] = o.result]
       /\ gpc' = [gpc EXCEPT ![c] = IF o.result = "ok" THEN "done" ELSE "failed"]
  /\ UNCHANGED <<globbed, disk, edits, clock, cache, rest, agg, stale>>
  /\ UNCHANGED <<watchVars, distVars>>

\* A fragment file is edited on disk.
Edit(f) ==
  /\ edits < MaxEdits
  /\ \E i \in 1..Len(globbed) : globbed[i] = f
  /\ edits' = edits + 1
  /\ disk' = [disk EXCEPT ![f] = @ + 1]
  /\ UNCHANGED <<globbed, clock, cache, gpc, rest, agg, stale, gDone,
                 gResult, logged>>
  /\ UNCHANGED <<watchVars, distVars>>

\* Time passes: Date.now() returns a larger value from now on.  Specifiers
\* tagged with an earlier time can never be requested again, so their
\* module map entries are no longer observable and are left out.
Tick ==
  /\ clock < MaxClock
  /\ clock' = clock + 1
  /\ cache' = <<>>
  /\ UNCHANGED <<globbed, disk, edits, gpc, rest, agg, stale, gDone,
                 gResult, logged>>
  /\ UNCHANGED <<watchVars, distVars>>

\* Lists of distinct fragment files, in any order, that a glob can match.
GlobResults ==
  { s \in UNION { [1..n -> Fragments] : n \in 0..MaxFiles } :
      \A i, j \in 1..Len(s) : i # j => s[i] # s[j] }

GuideIdle ==
  /\ disk = [f \in Fragments |-> 0]
  /\ edits = 0
  /\ clock = 0
  /\ cache = <<>>
  /\ gpc = [c \in Callers |-> "idle"]
  /\ rest = [c \in Callers |-> <<>>]
  /\ agg = [c \in Callers |-> NoAggregate]
  /\ stale = [c \in Callers |-> FALSE]
  /\ gDone = [c \in Callers |-> 0]
  /\ gResult = [c \in Callers |-> "none"]
  /\ logged = [c \in Callers |-> FALSE]

\* dist(done), lines 42-50: two src().pipe(dest()) streams are created and
\* done() is called in the same synchronous turn.
Dist ==
  /\ distCalls = 0
  /\ distCalls' = 1
  /\ viewsPipe' = "flowing"
  /\ assetsPipe' = "flowing"
  /\ distDone' = distDone + 1
  /\ UNCHANGED <<viewsSrc, assetsSrc, viewsOut, assetsOut>>
  /\ UNCHANGED <<watchVars, guideVars>>

\* The views stream writes one file, or ends when none is left.
ViewsCopy ==
  /\ viewsPipe = "flowing"
  /\ IF viewsOut < viewsSrc
     THEN viewsOut' = viewsOut + 1 /\ UNCHANGED viewsPipe
     ELSE viewsPipe' = "finished" /\ UNCHANGED viewsOut
  /\ UNCHANGED <<distCalls, distDone, assetsPipe, viewsSrc, assetsSrc,
                 assetsOut>>
  /\ UNCHANGED <<watchVars, guideVars>>

\* The assets stream writes one file, or ends when none is left.
AssetsCopy ==
  /\ assetsPipe = "flowing"
  /\ IF assetsOut < assetsSrc
     THEN assetsOut' = assetsOut + 1 /\ UNCHANGED assetsPipe
     ELSE assetsPipe' = "finished" /\ UNCHANGED assetsOut
  /\ UNCHANGED <<distCalls, distDone, viewsPipe, viewsSrc, assetsSrc,
                 viewsOut>>
  /\ UNCHANGED <<watchVars, guideVars>>

DistIdle ==
  /\ distCalls = 0
  /\ distDone = 0
  /\ viewsPipe = "idle"
  /\ assetsPipe = "idle"
  /\ viewsOut = 0
  /\ assetsOut = 0

WatchInit ==
  /\ watchCalls = 0
  /\ watchDone = 0
  /\ subs = {}
  /\ running = [r \in Routes |-> FALSE]
  /\ queued  = [r \in Routes |-> FALSE]
  /\ run     = [r \in Routes |-> FreshRun(r)]
  /\ orphans = [r \in Routes |-> 0]
  /\ lastResult = [r \in Routes |-> "none"]
  /\ lastNotify = [r \in Routes |-> 0]
  /\ events = 0
  /\ nEvents = [r \in Routes |-> 0]
  /\ nRuns   = [r \in Routes |-> 0]

Init ==
  /\ WatchInit
  /\ globbed = <<>> /\ GuideIdle
  /\ DistIdle /\ viewsSrc = 0 /\ assetsSrc = 0

Next ==
  \/ WatchBuild
  \/ \E r \in Routes : Change(r)
  \/ \E r \in Routes : \E p \in Paths(r) : LeafDone(r, p)
  \/ \E r \in Routes : OrphanDone(r)

Spec == Init /\ [][Next]_vars

\* guide:build invoked by its two callers, over every glob result.
InitGuide ==
  /\ WatchInit
  /\ globbed \in GlobResults /\ GuideIdle
  /\ DistIdle /\ viewsSrc = 0 /\ assetsSrc = 0

NextGuide ==
  \/ \E c \in Callers : BuildStart(c)
  \/ \E c \in Callers : BuildImport(c)
  \/ \E c \in Callers : BuildRender(c)
  \/ \E f \in Fragments : Edit(f)
  \/ Tick

SpecGuide == InitGuide /\ [][NextGuide]_vars

\* guide:dist over every size of its two source sets.
InitDist ==
  /\ WatchInit
  /\ globbed = <<>> /\ GuideIdle
  /\ DistIdle /\ viewsSrc \in 0..MaxCopy /\ assetsSrc \in 0..MaxCopy

NextDist == Dist \/ ViewsCopy \/ AssetsCopy

SpecDist == InitDist /\ [][NextDist]_vars

\* ------------------------------------------------------------- properties
St(r, p)  == run[r].st[p]
Err(r, p) == run[r].err[p]
IsReload(r, p) == Node(r, p).type = "leaf" /\ Node(r, p).task = "reload"
HasReload(r)   == \E p \in Paths(r) : IsReload(r, p)
SeriesPaths(r)   == { p \in Paths(r) : Node(r, p).type = "series" }
ParallelPaths(r) == { p \in Paths(r) : Node(r, p).type = "parallel" }
Finished(s) == s \in {"ok", "failed"}

\* C1: in every run of every route, the reload leaf is not started before
\* every build leaf of that run has completed; on the views route reload
\* starts only after both views.build and guide.build have completed.
ReloadAfterBuilds ==
  \A r \in Routes : \A p \in LeafPaths(r) :
    (IsReload(r, p) /\ St(r, p) # "idle")
      => \A q \in LeafPaths(r) \ {p} : St(r, q) = "ok"

ReloadAfterBuildsWitness ==
  /\ St("views", <<2>>) = "running"
  /\ St("views", <<1, 1>>) = "ok"
  /\ St("views", <<1, 2>>) = "ok"

\* C2 (as stated): every completed run of every route, successful or
\* failed, has made exactly one reload notify call.
ReloadOncePerRun ==
  \A r \in Routes : lastResult[r] # "none" => lastNotify[r] = 1

\* C2 (amended): a run makes at most one notify call; a completed run made
\* exactly one if it succeeded and its route's composition ends with reload
\* (all routes but styles), and none if it failed or is a styles run.
ReloadOnSuccessOnly ==
  \A r \in Routes :
    /\ run[r].notified <= 1
    /\ (lastResult[r] = "ok" /\ HasReload(r)) => lastNotify[r] = 1
    /\ (lastResult[r] = "failed" \/ (lastResult[r] = "ok" /\ ~HasReload(r)))
         => lastNotify[r] = 0

ReloadOnSuccessOnlyWitness ==
  /\ lastResult["fonts"] = "ok"     /\ lastNotify["fonts"] = 1
  /\ lastResult["views"] = "failed" /\ lastNotify["views"] = 0
  /\ lastResult["styles"] = "ok"    /\ lastNotify["styles"] = 0

\* C3: in a series, child i+1 is not started before child i has completed
\* successfully; once child k fails, no later child is ever started and the
\* series has failed with child k's error.
SeriesOrder ==
  \A r \in Routes : \A p \in SeriesPaths(r) :
    LET len == Len(Node(r, p).kids) IN
    /\ \A i \in 1..(len - 1) :
         St(r, Append(p, i + 1)) # "idle" => St(r, Append(p, i)) = "ok"
    /\ \A k \in 1..len :
         St(r, Append(p, k)) = "failed" =>
           /\ \A j \in (k + 1)..len : St(r, Append(p, j)) = "idle"
           /\ St(r, p) = "failed"
           /\ Err(r, p) = Err(r, Append(p, k))
           /\ Err(r, p) # ""

SeriesOrderWitness ==
  /\ St("fonts", <<1>>) = "failed" /\ St("fonts", <<>>) = "failed"
  /\ St("libs", <<1>>) = "ok" /\ St("libs", <<2>>) = "running"

\* C4 (as stated): a parallel starts all children together, completes only
\* after every child has completed, and has failed iff some child failed.
ParallelWaitsForAll ==
  \A r \in Routes : \A p \in ParallelPaths(r) :
    /\ St(r, p) # "idle" => \A c \in Kids(r, p) : St(r, c) # "idle"
    /\ Finished(St(r, p)) => \A c \in Kids(r, p) : Finished(St(r, c))
    /\ Finished(St(r, p)) =>
         (St(r, p) = "failed" <=> \E c \in Kids(r, p) : St(r, c) = "failed")

ParallelFailFastInv ==
  \A r \in Routes : \A p \in ParallelPaths(r) :
    /\ St(r, p) # "idle" => \A c \in Kids(r, p) : St(r, c) # "idle"
    /\ St(r, p) = "ok" => \A c \in Kids(r, p) : St(r, c) = "ok"
    /\ St(r, p) = "failed" <=> \E c \in Kids(r, p) : St(r, c) = "failed"
    /\ St(r, p) = "failed" =>
         \E c \in Kids(r, p) : St(r, c) = "failed" /\ Err(r, c) = Err(r, p)

ParallelNoCancelStep ==
  \A r \in Routes : \A p \in ParallelPaths(r) :
    (St(r, p) = "running" /\ run'[r].st[p] = "failed") =>
      /\ \A c \in Kids(r, p) :
           St(r, c) = "running" => run'[r].st[c] \in {"running", "failed"}
      /\ Cardinality({ c \in Kids(r, p) : St(r, c) # run'[r].st[c] }) = 1

\* C4 (amended): a parallel starts all children together and cancels none;
\* it succeeds only after every child has succeeded, and it fails as soon
\* as the first child fails, without waiting for the siblings still running;
\* it is failed iff some child has failed.
ParallelFailFast == []ParallelFailFastInv /\ [][ParallelNoCancelStep]_vars

ParallelFailFastWitness ==
  /\ St("views", <<1>>) = "failed"
  /\ St("views", <<1, 1>>) = "failed"
  /\ St("views", <<1, 2>>) = "running"

\* C8 (as stated): the watch task never calls its done callback.
WatchNeverDone == watchDone = 0

\* C8 (amended): the watch task registers one subscription per route (eight)
\* and then calls done at once, exactly once; the subscriptions outlive the
\* task and keep serving change events.
WatchRegistersThenDone ==
  /\ watchCalls = 0 => (subs = {} /\ watchDone = 0)
  /\ watchCalls = 1 =>
       /\ subs = {"styles", "fonts", "symbols", "images", "libs", "scripts",
                  "views", "guide"}
       /\ Cardinality(subs) = 8
       /\ watchDone = 1
  /\ \A r \in Routes : nRuns[r] > 0 => r \in subs

WatchRegistersThenDoneWitness ==
  /\ watchDone = 1
  /\ nRuns["guide"] > 0
  /\ lastResult["guide"] = "ok"

WatchSurvivesFailureInv ==
  /\ watchCalls = 1 => subs = Routes
  /\ \A r \in Routes :
       /\ nRuns[r] <= nEvents[r]
       /\ (lastResult[r] = "failed" /\ ~running[r]) => (r \in subs /\ ~queued[r])

WatchFreshRunStep ==
  \A r \in Routes :
    nRuns'[r] > nRuns[r] =>
      /\ nRuns'[r] = nRuns[r] + 1
      /\ running'[r]
      /\ run'[r].st[<<>>] = "running"
      /\ run'[r].notified = 0
      /\ \A p \in LeafPaths(r) : run'[r].st[p] \in {"idle", "running"}
      /\ \A p \in Paths(r) : run'[r].err[p] = ""
      /\ \/ ~running[r] /\ nEvents'[r] = nEvents[r] + 1
         \/ running[r] /\ queued[r] /\ ~queued'[r]

\* C9: after a failed run every subscription stays registered and the
\* watcher is ready; a later change event starts a fresh run of the whole
\* composition, and runs are started by change events only (no retry).
WatchSurvivesFailure == []WatchSurvivesFailureInv /\ [][WatchFreshRunStep]_vars

WatchSurvivesFailureWitness ==
  \E r \in Routes : \E o \in Routes \ {r} :
    /\ lastResult[r] = "failed"
    /\ nRuns[r] = 2 /\ running[r]
    /\ running[o]

\* C5: when generateGuide throws, guide:build logs the error, calls done
\* exactly once and reports success to the composition that runs it.
RenderFailureIsLogged ==
  \A c \in Callers :
    /\ gDone[c] <= 1
    /\ logged[c] => (gpc[c] = "done" /\ gDone[c] = 1 /\ gResult[c] = "ok")
    /\ gpc[c] = "done" <=> gDone[c] = 1

RenderFailureIsLoggedWitness ==
  \E c \in Callers :
    logged[c] /\ gpc[c] = "done" /\ gResult[c] = "ok" /\ agg[c].keys # <<>>

\* C6: no invocation of guide:build ever gets an evaluation of a fragment
\* that is older than the file on disk at the time of the import, whatever
\* the clock readings of the invocations.
ImportsAlwaysFresh == \A c \in Callers : ~stale[c]

\* Files of the glob result other than the one taken as the base value.
Others(c) ==
  { globbed[i] : i \in 1..Len(globbed) } \ {agg[c].base}

\* C7: for every glob result, the finished aggregate is based on a file whose
\* path contains "index", and has exactly one keyed property per other
\* matched file, keyed by its base name without extension and holding that
\* file's export.
AggregateFromIndex ==
  \A c \in Callers :
    gpc[c] = "done" =>
      /\ includes(agg[c].base, "index")
      /\ \A f \in Others(c) :
           LET key == basename(f, extname(f)) IN
           /\ key \in DOMAIN agg[c].keys
           /\ agg[c].keys[key].file = f
      /\ Cardinality(DOMAIN agg[c].keys) = Len(globbed) - 1
      /\ \A f \in { globbed[i] : i \in 1..Len(globbed) } :
           ~includes(f, "index") => f # agg[c].base

\* C10: guide:dist calls done exactly once, and when it has called done both
\* copy streams have finished writing their files.
DistDoneAfterCopies ==
  /\ distDone <= 1
  /\ distCalls = 1 => distDone = 1
  /\ distDone >= 1 =>
       /\ viewsPipe = "finished" /\ viewsOut = viewsSrc
       /\ assetsPipe = "finished" /\ assetsOut = assetsSrc

=============================================================================
